---- MODULE Spec2Model ----
(***************************************************************************)
(* R-Tree of src/Proyecto.py (classes Point, Rectangle, RTreeNode, RTree). *)
(*                                                                         *)
(* Python objects are mutable and shared by reference, so the model keeps  *)
(* two heaps: nodes (RTreeNode objects) and rects (Rectangle objects).    *)
(* A node id is an index of nodes, a rectangle id an index of rects, and  *)
(* None is 0.  An entry of a node is the pair (rect id, child), the child *)
(* being a Point value in a leaf and a node id in an internal node.       *)
(* Every operation of RTree runs to completion (no threads), so each is   *)
(* one action.  The window, class GeoSpatialGUI, is the record gui; each   *)
(* of its callbacks runs to completion in the Tk main loop and is one     *)
(* action too.                                                             *)
(***************************************************************************)
EXTENDS Integers, Sequences, FiniteSets

\* ------------------------------------------------------------------ bounds
MaxX == 1           \* inserted and queried x coordinates are 0..MaxX
MaxY == 1           \* inserted and queried y coordinates are 0..MaxY
MaxEntries == 2     \* trees are constructed with max_entries in 1..MaxEntries
MaxInserts == 4     \* at most this many insert calls on a tree
MaxK == 5           \* knn_query is called with k in -1..MaxK
Scale == 1000       \* distances are fixed-point numbers, in 1/Scale units

None == 0

VARIABLES
    nodes,          \* heap of RTreeNode objects: is_leaf, max_entries, entries, mbr
    rects,          \* heap of Rectangle objects: min_x, min_y, max_x, max_y
    root,           \* RTree.root (a node id)
    size,           \* RTree.size
    height,         \* RTree.height
    max_entries,    \* RTree.max_entries
    points,         \* the caller's list of the points it has inserted, in order
    call,           \* the last call made on the tree and its arguments
    ret,            \* what that call returned
    gui             \* the fields of the GeoSpatialGUI window

vars == <<nodes, rects, root, size, height, max_entries, points, call, ret, gui>>

\* ------------------------------------------------------- Point, Rectangle
XS == 0..MaxX
YS == 0..MaxY
KS == (0 - 1)..MaxK

\* Point(x, y, name, category); category plays no part in the index.
Point(x, y, name) == [x |-> x, y |-> y, name |-> name]

Rectangle(a, b, c, d) == [min_x |-> a, min_y |-> b, max_x |-> c, max_y |-> d]

Min2(a, b) == IF a <= b THEN a ELSE b
Max2(a, b) == IF a >= b THEN a ELSE b
MinOf(S) == CHOOSE m \in S : \A e \in S : m <= e
MaxOf(S) == CHOOSE m \in S : \A e \in S : m >= e

\* Largest r with r*r <= n, by bisection on lo..hi (lo*lo <= n < (hi+1)^2).
RECURSIVE SqrtBetween(_, _, _)
SqrtBetween(n, lo, hi) ==
    IF lo >= hi THEN lo
    ELSE LET mid == (lo + hi + 1) \div 2
         IN IF mid * mid <= n THEN SqrtBetween(n, mid, hi)
                              ELSE SqrtBetween(n, lo, mid - 1)

\* math.sqrt on a fixed-point scale: floor(Scale * sqrt(n)).
sqrt(n) == SqrtBetween(n * Scale * Scale, 0, n * Scale)

distance_to(self, other) ==
    sqrt((self.x - other.x) * (self.x - other.x)
         + (self.y - other.y) * (self.y - other.y))

area(self) == (self.max_x - self.min_x) * (self.max_y - self.min_y)

contains_point(self, point) ==
    /\ self.min_x <= point.x /\ point.x <= self.max_x
    /\ self.min_y <= point.y /\ point.y <= self.max_y

\* intersects that tests the x axis and forgets the y axis.
intersects_x_only(self, other) ==
    ~ (other.max_x < self.min_x \/ other.min_x > self.max_x)

intersects(self, other) ==
    ~ (\/ other.max_x < self.min_x \/ other.min_x > self.max_x
       \/ other.max_y < self.min_y \/ other.min_y > self.max_y)

enlargement_needed(self, point) ==
    LET new_min_x == Min2(self.min_x, point.x)
        new_min_y == Min2(self.min_y, point.y)
        new_max_x == Max2(self.max_x, point.x)
        new_max_y == Max2(self.max_y, point.y)
        new_area == (new_max_x - new_min_x) * (new_max_y - new_min_y)
    IN new_area - area(self)

\* expand_to_include that moves the upper corner only.
expand_to_include_max_only(self, point) ==
    Rectangle(self.min_x, self.min_y,
              Max2(self.max_x, point.x), Max2(self.max_y, point.y))

\* The rectangle object after self.expand_to_include(point).
expand_to_include(self, point) ==
    Rectangle(Min2(self.min_x, point.x), Min2(self.min_y, point.y),
              Max2(self.max_x, point.x), Max2(self.max_y, point.y))

\* ----------------------------------------------------------- RTreeNode
\* RTreeNode(is_leaf, max_entries): no entries, mbr None.
RTreeNode(is_leaf, m) ==
    [is_leaf |-> is_leaf, max_entries |-> m, entries |-> <<>>, mbr |-> None]

is_full(node) == Len(node.entries) >= node.max_entries

\* A store S is the tree with its heaps:
\*   [nodes, rects, root, size, height].
\* calculate_mbr on node n: nothing at all when there are no entries (the
\* old mbr stays), otherwise a fresh Rectangle object becomes n.mbr.
calculate_mbr(S, n) ==
    LET es == S.nodes[n].entries
        R(i) == S.rects[es[i].rect]
    IN IF Len(es) = 0 THEN S
       ELSE LET r == Rectangle(MinOf({R(i).min_x : i \in DOMAIN es}),
                               MinOf({R(i).min_y : i \in DOMAIN es}),
                               MaxOf({R(i).max_x : i \in DOMAIN es}),
                               MaxOf({R(i).max_y : i \in DOMAIN es}))
            IN [S EXCEPT !.rects = Append(@, r),
                         !.nodes[n].mbr = Len(S.rects) + 1]

\* --------------------------------------------------------------- RTree
\* best_entry that keeps the last of the entries of least enlargement.
RECURSIVE best_entry_last_of_ties(_, _, _, _, _, _)
best_entry_last_of_ties(S, node, p, i, min_enlargement, best) ==
    LET es == S.nodes[node].entries
    IN IF i > Len(es) THEN best
       ELSE LET enlargement == enlargement_needed(S.rects[es[i].rect], p)
            IN IF best = None \/ enlargement <= min_enlargement
               THEN best_entry_last_of_ties(S, node, p, i + 1, enlargement, i)
               ELSE best_entry_last_of_ties(S, node, p, i + 1, min_enlargement, best)

\* The loop of _choose_leaf over node.entries from index i on: best is the
\* index of best_entry (None before the first entry), min its enlargement
\* (meaningful once best is set; before that it stands for float('inf')).
RECURSIVE best_entry(_, _, _, _, _, _)
best_entry(S, node, p, i, min_enlargement, best) ==
    LET es == S.nodes[node].entries
    IN IF i > Len(es) THEN best
       ELSE LET enlargement == enlargement_needed(S.rects[es[i].rect], p)
            IN IF best = None \/ enlargement < min_enlargement
               THEN best_entry(S, node, p, i + 1, enlargement, i)
               ELSE best_entry(S, node, p, i + 1, min_enlargement, best)

\* _choose_leaf(node, rect): rect is the id of the new point's rectangle.
\* Returns the store (entry rectangles on the path enlarged in place) and
\* the leaf reached.
RECURSIVE choose_leaf(_, _, _)
choose_leaf(S, node, rect) ==
    IF S.nodes[node].is_leaf THEN [S |-> S, leaf |-> node]
    ELSE LET r == S.rects[rect]
             lo == Point(r.min_x, r.min_y, "")
             hi == Point(r.max_x, r.max_y, "")
             b == best_entry(S, node, lo, 1, 0, None)
             e == S.nodes[node].entries[b]
             S1 == [S EXCEPT !.rects[e.rect] =
                       expand_to_include(expand_to_include(@, lo), hi)]
         IN choose_leaf(S1, e.child, rect)

\* halve with mid rounded up instead of down.
halve_mid_rounded_up(S, node) ==
    LET entries == S.nodes[node].entries
        mid == (Len(entries) + 1) \div 2
        new_node == Len(S.nodes) + 1
        S1 == [S EXCEPT
                 !.nodes = Append(@, [RTreeNode(S.nodes[node].is_leaf, max_entries)
                                        EXCEPT !.entries = SubSeq(entries, mid + 1, Len(entries))]),
                 !.nodes[node].entries = SubSeq(entries, 1, mid)]
    IN calculate_mbr(calculate_mbr(S1, node), new_node)

\* halve that leaves node's own entry list as it was.
halve_without_truncation(S, node) ==
    LET entries == S.nodes[node].entries
        mid == Len(entries) \div 2
        new_node == Len(S.nodes) + 1
        S1 == [S EXCEPT
                 !.nodes = Append(@, [RTreeNode(S.nodes[node].is_leaf, max_entries)
                                        EXCEPT !.entries = SubSeq(entries, mid + 1, Len(entries))])]
    IN calculate_mbr(calculate_mbr(S1, node), new_node)

\* _split_node, lines 144-154: the second half of node's entries moves to a
\* new node (its id is the next free one) and both mbrs are recomputed.
halve(S, node) ==
    LET entries == S.nodes[node].entries
        mid == Len(entries) \div 2
        new_node == Len(S.nodes) + 1
        S1 == [S EXCEPT
                 !.nodes = Append(@, [RTreeNode(S.nodes[node].is_leaf, max_entries)
                                        EXCEPT !.entries = SubSeq(entries, mid + 1, Len(entries))]),
                 !.nodes[node].entries = SubSeq(entries, 1, mid)]
    IN calculate_mbr(calculate_mbr(S1, node), new_node)

\* promote_root that forgets height += 1.
promote_root_same_height(S, node, new_node) ==
    LET new_root == Len(S.nodes) + 1
        S1 == [S EXCEPT
                 !.nodes = Append(@, [RTreeNode(FALSE, max_entries)
                    EXCEPT !.entries =
                      << [rect |-> S.nodes[node].mbr, child |-> node],
                         [rect |-> S.nodes[new_node].mbr, child |-> new_node] >>])]
        S2 == calculate_mbr(S1, new_root)
    IN [S2 EXCEPT !.root = new_root]

\* _split_node, lines 158-165: a new internal root over node and new_node;
\* its two entries hold the very Rectangle objects that are the nodes' mbrs.
promote_root(S, node, new_node) ==
    LET new_root == Len(S.nodes) + 1
        S1 == [S EXCEPT
                 !.nodes = Append(@, [RTreeNode(FALSE, max_entries)
                    EXCEPT !.entries =
                      << [rect |-> S.nodes[node].mbr, child |-> node],
                         [rect |-> S.nodes[new_node].mbr, child |-> new_node] >>])]
        S2 == calculate_mbr(S1, new_root)
    IN [S2 EXCEPT !.root = new_root, !.height = @ + 1]

\* _split_node without the test "node == self.root": every split installs
\* a new root.
split_node_always_promotes(S, node) ==
    promote_root(halve(S, node), node, Len(S.nodes) + 1)

\* _split_node(node)
split_node(S, node) ==
    LET new_node == Len(S.nodes) + 1
        S1 == halve(S, node)
    IN IF node = S1.root THEN promote_root(S1, node, new_node)
       ELSE S1

\* insert that lets a leaf grow one entry further before it splits.
insert_split_one_later(S, point) ==
    LET rect == Len(S.rects) + 1
        S1 == [S EXCEPT !.rects = Append(@, Rectangle(point.x, point.y, point.x, point.y))]
        cl == choose_leaf(S1, S1.root, rect)
        leaf == cl.leaf
        S2 == [cl.S EXCEPT !.nodes[leaf].entries = Append(@, [rect |-> rect, child |-> point])]
        S3 == calculate_mbr(S2, leaf)
        S4 == [S3 EXCEPT !.size = @ + 1]
    IN IF is_full(S4.nodes[leaf]) /\ Len(S4.nodes[leaf].entries) > max_entries + 1
       THEN split_node(S4, leaf)
       ELSE S4

\* insert with the count moved behind the overflow test, so that an insert
\* that splits is not counted.
insert_uncounted_split(S, point) ==
    LET rect == Len(S.rects) + 1
        S1 == [S EXCEPT !.rects = Append(@, Rectangle(point.x, point.y, point.x, point.y))]
        cl == choose_leaf(S1, S1.root, rect)
        leaf == cl.leaf
        S2 == [cl.S EXCEPT !.nodes[leaf].entries = Append(@, [rect |-> rect, child |-> point])]
        S3 == calculate_mbr(S2, leaf)
    IN IF is_full(S3.nodes[leaf]) /\ Len(S3.nodes[leaf].entries) > max_entries
       THEN split_node(S3, leaf)
       ELSE [S3 EXCEPT !.size = @ + 1]

\* insert(point)
insert(S, point) ==
    LET rect == Len(S.rects) + 1
        S1 == [S EXCEPT !.rects = Append(@, Rectangle(point.x, point.y, point.x, point.y))]
        cl == choose_leaf(S1, S1.root, rect)
        leaf == cl.leaf
        S2 == [cl.S EXCEPT !.nodes[leaf].entries = Append(@, [rect |-> rect, child |-> point])]
        S3 == calculate_mbr(S2, leaf)
        S4 == [S3 EXCEPT !.size = @ + 1]
    IN IF is_full(S4.nodes[leaf]) /\ Len(S4.nodes[leaf].entries) > max_entries
       THEN split_node(S4, leaf)
       ELSE S4

\* _range_search(node, query_rect, results), entries from index i on:
\* the results list after the loop.
RECURSIVE range_search(_, _, _, _)
RECURSIVE range_search_from(_, _, _, _, _)
range_search_from(S, node, query_rect, results, i) ==
    LET es == S.nodes[node].entries
    IN IF i > Len(es) THEN results
       ELSE LET entry_rect == S.rects[es[i].rect]
                entry_data == es[i].child
                r1 == IF ~ intersects(entry_rect, query_rect) THEN results
                      ELSE IF S.nodes[node].is_leaf
                           THEN IF contains_point(query_rect, entry_data)
                                THEN Append(results, entry_data)
                                ELSE results
                           ELSE range_search(S, entry_data, query_rect, results)
            IN range_search_from(S, node, query_rect, r1, i + 1)

range_search(S, node, query_rect, results) ==
    range_search_from(S, node, query_rect, results, 1)

\* range_query that first puts the corners of query_rect in order.
range_query_normalising(S, query_rect) ==
    range_search(S, S.root,
                 Rectangle(Min2(query_rect.min_x, query_rect.max_x),
                           Min2(query_rect.min_y, query_rect.max_y),
                           Max2(query_rect.min_x, query_rect.max_x),
                           Max2(query_rect.min_y, query_rect.max_y)),
                 <<>>)

\* range_query(query_rect)
range_query(S, query_rect) == range_search(S, S.root, query_rect, <<>>)

\* _collect_all_points(node, points), entries from index i on.
RECURSIVE collect_all_points(_, _, _)
RECURSIVE collect_from(_, _, _, _)
collect_first_only(S, node, pts, i) ==
    LET es == S.nodes[node].entries
    IN IF i > Len(es) THEN pts
       ELSE IF S.nodes[node].is_leaf THEN Append(pts, es[i].child)
       ELSE collect_all_points(S, es[i].child, pts)

collect_from(S, node, pts, i) ==
    LET es == S.nodes[node].entries
    IN IF i > Len(es) THEN pts
       ELSE collect_from(S, node,
                IF S.nodes[node].is_leaf THEN Append(pts, es[i].child)
                ELSE collect_all_points(S, es[i].child, pts),
                i + 1)

collect_all_points(S, node, pts) == collect_from(S, node, pts, 1)

\* The sort with the comparison turned round (largest distance first).
RECURSIVE sort_insert_descending(_, _)
sort_insert_descending(sorted, e) ==
    IF Len(sorted) = 0 THEN <<e>>
    ELSE IF sorted[Len(sorted)][2] >= e[2] THEN Append(sorted, e)
    ELSE Append(sort_insert_descending(SubSeq(sorted, 1, Len(sorted) - 1), e),
                sorted[Len(sorted)])

\* list.sort(key = distance): stable, so equal keys keep their order.
\* Insert e after the last element whose key is <= e's.
RECURSIVE sort_insert(_, _)
sort_insert(sorted, e) ==
    IF Len(sorted) = 0 THEN <<e>>
    ELSE IF sorted[Len(sorted)][2] <= e[2] THEN Append(sorted, e)
    ELSE Append(sort_insert(SubSeq(sorted, 1, Len(sorted) - 1), e),
                sorted[Len(sorted)])

RECURSIVE sort_by_distance(_)
sort_by_distance(s) ==
    IF Len(s) = 0 THEN <<>>
    ELSE sort_insert(sort_by_distance(SubSeq(s, 1, Len(s) - 1)), s[Len(s)])

\* s[:k] of Python: a negative k counts from the end.
slice_to(s, k) ==
    LET stop == IF k < 0 THEN Max2(Len(s) + k, 0) ELSE Min2(k, Len(s))
    IN SubSeq(s, 1, stop)

\* knn_query(query_point, k): a list of (point, distance) pairs.
knn_query(S, query_point, k) ==
    LET all_points == collect_all_points(S, S.root, <<>>)
        distances == [i \in DOMAIN all_points |->
                        <<all_points[i], distance_to(query_point, all_points[i])>>]
    IN slice_to(sort_by_distance(distances), k)

\* ------------------------------------------------------------- actions
\* GeoSpatialGUI.__init__: the fields as the constructor leaves them.  The
\* window's rtree is None or the one RTree object, whose fields are the
\* variables nodes .. height; rect_start is the empty sequence for None.
\* What the window keeps only to draw it (the canvas and text widgets,
\* query_rect and query_point, which highlight_results alone reads) is
\* left out.
GeoSpatialGUI ==
    [rtree |-> None, query_results |-> << >>, drawing_rect |-> FALSE,
     rect_start |-> << >>, current_rect_id |-> None,
     query_type_var |-> "range"]

Store == [nodes |-> nodes, rects |-> rects, root |-> root,
          size |-> size, height |-> height]

\* RTree(max_entries): the root is an empty leaf.
Init ==
    /\ max_entries \in 1..MaxEntries
    /\ nodes = << RTreeNode(TRUE, max_entries) >>
    /\ rects = << >>
    /\ root = 1
    /\ size = 0
    /\ height = 1
    /\ points = << >>
    /\ call = [op |-> "RTree"]
    /\ ret = << >>
    /\ gui = GeoSpatialGUI

\* rtree.insert(point), as in measure_insertion_time's loop; the i-th point
\* of the data set is named i.
Insert ==
    /\ Len(points) < MaxInserts
    /\ \E x \in XS, y \in YS :
         LET point == Point(x, y, Len(points) + 1)
             S == insert(Store, point)
         IN /\ nodes' = S.nodes
            /\ rects' = S.rects
            /\ root' = S.root
            /\ size' = S.size
            /\ height' = S.height
            /\ points' = Append(points, point)
            /\ call' = [op |-> "insert", point |-> point]
            /\ ret' = << >>
    /\ UNCHANGED <<max_entries, gui>>

\* A query is taken on the tree as the construction or the last insert left
\* it.  range_query and knn_query assign nothing in the tree (lines 167-207),
\* so a query that follows another query finds that same tree and returns
\* what it returns here; call and ret keep the last call only.
Idle == call.op \in {"RTree", "insert"}

\* A range_query that, besides answering, reverses the root's entry list in
\* place.
RangeQuery_reversing_root ==
    /\ Idle
    /\ \E a \in XS, b \in YS, c \in XS, d \in YS :
         LET query_rect == Rectangle(a, b, c, d)
         IN /\ call' = [op |-> "range_query", query_rect |-> query_rect]
            /\ ret' = range_query(Store, query_rect)
    /\ nodes' = [nodes EXCEPT ![root].entries =
                    [i \in DOMAIN @ |-> @[Len(@) + 1 - i]]]
    /\ UNCHANGED <<rects, root, size, height, max_entries, points, gui>>

\* rtree.range_query(query_rect), any four corner values (an inverted
\* rectangle included: the index checks nothing).
RangeQuery ==
    /\ Idle
    /\ \E a \in XS, b \in YS, c \in XS, d \in YS :
         LET query_rect == Rectangle(a, b, c, d)
         IN /\ call' = [op |-> "range_query", query_rect |-> query_rect]
            /\ ret' = range_query(Store, query_rect)
    /\ UNCHANGED <<nodes, rects, root, size, height, max_entries, points, gui>>

\* rtree.knn_query(query_point, k)
KnnQuery ==
    /\ Idle
    /\ \E x \in XS, y \in YS, k \in KS :
         LET query_point == Point(x, y, "Query Point")
         IN /\ call' = [op |-> "knn_query", query_point |-> query_point, k |-> k]
            /\ ret' = knn_query(Store, query_point, k)
    /\ UNCHANGED <<nodes, rects, root, size, height, max_entries, points, gui>>

Next == Insert \/ RangeQuery \/ KnnQuery

Spec == Init /\ [][Next]_vars

\* The caller makes the call it has just made once more, on the tree as it
\* is now: the same range_query or knn_query with the same arguments.  The
\* field again of call marks the second call.
RepeatQuery ==
    /\ call.op \in {"range_query", "knn_query"}
    /\ "again" \notin DOMAIN call
    /\ IF call.op = "range_query"
       THEN /\ call' = [op |-> "range_query", query_rect |-> call.query_rect,
                        again |-> TRUE]
            /\ ret' = range_query(Store, call.query_rect)
       ELSE /\ call' = [op |-> "knn_query", query_point |-> call.query_point,
                        k |-> call.k, again |-> TRUE]
            /\ ret' = knn_query(Store, call.query_point, call.k)
    /\ UNCHANGED <<nodes, rects, root, size, height, max_entries, points, gui>>

\* Inserts and queries, and any query made twice in a row.
SpecRepeat == Init /\ [][Next \/ RepeatQuery]_vars

\* The building of an index alone: the loop of measure_insertion_time,
\* which only inserts.  The tree it can build is the tree Spec can build,
\* since the queries assign nothing in the tree.
SpecBuild == Init /\ [][Insert]_vars

\* ------------------------------------------------- what the claims speak of
\* The children of an internal node, and the nodes reachable from the root.
Children(n) ==
    IF nodes[n].is_leaf THEN {}
    ELSE {nodes[n].entries[i].child : i \in DOMAIN nodes[n].entries}

RECURSIVE ReachFrom(_)
ReachFrom(N) ==
    LET N1 == N \cup UNION {Children(n) : n \in N}
    IN IF N1 = N THEN N ELSE ReachFrom(N1)

Reachable == ReachFrom({root})
ReachableLeaves == {n \in Reachable : nodes[n].is_leaf}

\* The (leaf, index) places of the leaf entries reachable from the root, and
\* the points stored there.
ReachablePlaces ==
    UNION {{<<n, i>> : i \in DOMAIN nodes[n].entries} : n \in ReachableLeaves}
ReachablePoints == {nodes[pl[1]].entries[pl[2]].child : pl \in ReachablePlaces}

Inserted == {points[i] : i \in DOMAIN points}
Range(s) == {s[i] : i \in DOMAIN s}
WellFormed(r) == r.min_x <= r.max_x /\ r.min_y <= r.max_y

\* Some point that was inserted is no longer stored under the root.
SomePointLost == Inserted # ReachablePoints

\* ---------------------------------------------------------------- C1
\* C1: after any sequence of N inserts tree.size = N, whatever splits (of
\* the root or of another leaf) the inserts triggered.
C1_SizeIsInsertCount == size = Len(points)

\* Inserts have been counted through a root split and a later split of a
\* leaf that was not the root.
C1_Witness ==
    /\ call.op = "insert" /\ size >= 3 /\ height = 2
    /\ SomePointLost

\* ---------------------------------------------------------------- C2
\* C2: range_query(R), R well formed, returns exactly the inserted points
\* that lie in R: every inserted point inside R is in the result and no
\* point outside R is.
C2_RangeQueryReturnsEveryInsertedPointInR ==
    (call.op = "range_query" /\ WellFormed(call.query_rect)) =>
        \A p \in Inserted :
            p \in Range(ret) <=> contains_point(call.query_rect, p)

\* ---------------------------------------------------------------- C3
\* C3: range_query(R), R well formed, contains an inserted point P if and
\* only if R contains P and P is stored in a leaf reachable from the root;
\* pruning by entry rectangles hides no reachable point inside R.
C3_RangeQueryReturnsReachablePointsInR ==
    (call.op = "range_query" /\ WellFormed(call.query_rect)) =>
        \A p \in Inserted :
            p \in Range(ret) <=>
                (contains_point(call.query_rect, p) /\ p \in ReachablePoints)

\* A range query on an internal root that pruned one root entry, found a
\* point through the other, and whose rectangle holds a point that was lost.
C3_Witness ==
    /\ call.op = "range_query" /\ WellFormed(call.query_rect)
    /\ ~ nodes[root].is_leaf
    /\ \E i \in DOMAIN nodes[root].entries :
          ~ intersects(rects[nodes[root].entries[i].rect], call.query_rect)
    /\ Len(ret) >= 1
    /\ \E p \in Inserted \ ReachablePoints : contains_point(call.query_rect, p)

\* ---------------------------------------------------------------- C4
\* d is the Euclidean distance between a and b on the fixed-point scale:
\* d <= Scale * |a b| < d + 1, stated on the squares.
SquaredDistance(a, b) == (a.x - b.x) * (a.x - b.x) + (a.y - b.y) * (a.y - b.y)
IsEuclidean(d, a, b) ==
    /\ d >= 0
    /\ d * d <= Scale * Scale * SquaredDistance(a, b)
    /\ (d + 1) * (d + 1) > Scale * Scale * SquaredDistance(a, b)

Returned == {ret[i][1] : i \in DOMAIN ret}

\* C4: knn_query(q, k) with 1 <= k <= number of reachable points returns
\* exactly k pairs, of k different reachable points, each with its Euclidean
\* distance to q, in non-decreasing order of distance, and no reachable
\* point left out is strictly closer to q than a returned one.
C4_KnnReturnsTheKNearestReachable ==
    (call.op = "knn_query" /\ 1 <= call.k
        /\ call.k <= Cardinality(ReachablePoints)) =>
        /\ Len(ret) = call.k
        /\ Cardinality(Returned) = call.k
        /\ \A i \in DOMAIN ret :
              /\ ret[i][1] \in ReachablePoints
              /\ IsEuclidean(ret[i][2], call.query_point, ret[i][1])
        /\ \A i, j \in DOMAIN ret : i < j => ret[i][2] <= ret[j][2]
        /\ \A p \in ReachablePoints \ Returned : \A i \in DOMAIN ret :
              SquaredDistance(call.query_point, p)
                  >= SquaredDistance(call.query_point, ret[i][1])

\* A k-NN query on an internal root that had to leave a reachable point out,
\* with returned points at two different distances.
C4_Witness ==
    /\ call.op = "knn_query" /\ call.k >= 2
    /\ call.k < Cardinality(ReachablePoints)
    /\ ~ nodes[root].is_leaf
    /\ Len(ret) = call.k
    /\ ret[1][2] < ret[Len(ret)][2]

\* ---------------------------------------------------------------- C5
\* C5: knn_query(q, k) with k greater than the number of reachable points
\* returns every reachable point exactly once: the result is as long as
\* there are reachable points, not k.
C5_KnnSaturatesAtReachable ==
    (call.op = "knn_query" /\ call.k > Cardinality(ReachablePoints)) =>
        /\ Len(ret) = Cardinality(ReachablePoints)
        /\ Returned = ReachablePoints

\* k lies between the number of reachable points and tree.size, on a tree
\* that has lost points.
C5_Witness ==
    /\ call.op = "knn_query"
    /\ call.k > Cardinality(ReachablePoints) /\ call.k <= size
    /\ Len(ret) >= 2 /\ Len(ret) < call.k

\* ---------------------------------------------------------------- C6
\* C6: knn_query(q, k) with k greater than tree.size returns all the indexed
\* points: a result of length tree.size holding every inserted point.
C6_KnnBeyondSizeReturnsEveryInserted ==
    (call.op = "knn_query" /\ call.k > size) =>
        /\ Len(ret) = size
        /\ Returned = Inserted

\* ---------------------------------------------------------------- C7
\* The componentwise min/max of the rectangles of node n's entries.
TightMbr(n) ==
    LET es == nodes[n].entries
    IN Rectangle(MinOf({rects[es[i].rect].min_x : i \in DOMAIN es}),
                 MinOf({rects[es[i].rect].min_y : i \in DOMAIN es}),
                 MaxOf({rects[es[i].rect].max_x : i \in DOMAIN es}),
                 MaxOf({rects[es[i].rect].max_y : i \in DOMAIN es}))

\* C7: after every completed insert every node reachable from the root, the
\* root included, has a cached mbr equal to the componentwise min/max of
\* the rectangles of its direct entries.
C7_EveryReachableMbrIsTight ==
    size >= 1 =>
        \A n \in Reachable :
            /\ nodes[n].mbr # None
            /\ rects[nodes[n].mbr] = TightMbr(n)

\* ---------------------------------------------------------------- C8
\* C8: from the empty tree with max_entries = m, the root is a leaf and
\* height is 1 through the first m inserts; after the (m+1)-th insert height
\* is 2, the root is internal with exactly 2 entries, and size is m + 1.
C8_RootPromotionAtInsertMPlus1 ==
    /\ Len(points) <= max_entries =>
          (height = 1 /\ nodes[root].is_leaf)
    /\ Len(points) = max_entries + 1 =>
          /\ height = 2
          /\ ~ nodes[root].is_leaf
          /\ Len(nodes[root].entries) = 2
          /\ size = max_entries + 1

\* The state right after the (m+1)-th insert, for the largest max_entries.
C8_Witness ==
    /\ call.op = "insert" /\ max_entries = MaxEntries
    /\ Len(points) = max_entries + 1
    /\ height = 2

\* ---------------------------------------------------------------- C9
\* C9 as stated: after every completed insert every reachable node, leaf or
\* internal, holds at most max_entries entries, for max_entries = 1 too.
C9_EveryReachableNodeWithinCapacity ==
    \A n \in Reachable : Len(nodes[n].entries) <= max_entries

\* C9 amended: after every completed insert every reachable leaf holds at
\* most max_entries entries and a reachable internal node holds exactly 2;
\* so every reachable node is within max_entries when max_entries >= 2,
\* and the internal root exceeds it when max_entries = 1.
C9_LeavesWithinCapacityRootHasTwo ==
    /\ \A n \in Reachable :
          IF nodes[n].is_leaf THEN Len(nodes[n].entries) <= max_entries
          ELSE Len(nodes[n].entries) = 2
    /\ max_entries >= 2 => C9_EveryReachableNodeWithinCapacity
    /\ (max_entries = 1 /\ ~ nodes[root].is_leaf) =>
          Len(nodes[root].entries) > max_entries

\* A leaf under an internal root has just overflowed and been cut back,
\* with max_entries >= 2.
C9_Witness ==
    /\ call.op = "insert" /\ max_entries >= 2
    /\ ~ nodes[root].is_leaf
    /\ SomePointLost

\* --------------------------------------------------------------- C10
\* The depths (the root is at depth 1) of the leaves below node n.
RECURSIVE LeafDepths(_, _)
LeafDepths(n, d) ==
    IF nodes[n].is_leaf THEN {d}
    ELSE UNION {LeafDepths(c, d + 1) : c \in Children(n)}

\* C10: tree.height is the number of levels on every path from the root to
\* a leaf (so it is 1 while the root is a leaf, and all reachable leaves
\* are at the same depth), and height goes up by one exactly in the steps
\* that install a new root.
C10_HeightIsDepthOfEveryLeaf ==
    /\ [](LeafDepths(root, 1) = {height} /\ (nodes[root].is_leaf => height = 1))
    /\ [][/\ (root' # root) <=> (height' = height + 1)
          /\ (root' = root) <=> (height' = height)]_vars

\* A leaf that is not the root has been split and the height is still the
\* depth of the leaves.
C10_Witness ==
    /\ call.op = "insert" /\ height = 2
    /\ SomePointLost
    /\ \A n \in ReachableLeaves : n # root

\* --------------------------------------------------------------- C11
\* The (node, index) places of the entries of the reachable internal nodes.
InternalPlaces ==
    UNION {{<<n, i>> : i \in DOMAIN nodes[n].entries} :
              n \in Reachable \ ReachableLeaves}
ChildAt(pl) == nodes[pl[1]].entries[pl[2]].child

\* C11: what is reachable from the root is a tree: no node is the child of
\* two entries, no node lies below itself (and the root is nobody's child),
\* every inserted point is held by at most one reachable leaf entry, and so
\* a range_query result never holds the same inserted point twice.
C11_ReachableStructureIsATree ==
    /\ \A p1, p2 \in InternalPlaces : ChildAt(p1) = ChildAt(p2) => p1 = p2
    /\ \A n \in Reachable : n \notin ReachFrom(Children(n))
    /\ \A pl \in InternalPlaces : ChildAt(pl) # root
    /\ \A p1, p2 \in ReachablePlaces :
          nodes[p1[1]].entries[p1[2]].child = nodes[p2[1]].entries[p2[2]].child
              => p1 = p2
    /\ call.op = "range_query" =>
          \A i, j \in DOMAIN ret : ret[i] = ret[j] => i = j

\* A range query that returned points of both leaves of an internal root,
\* two of them with the same coordinates.
C11_Witness ==
    /\ call.op = "range_query" /\ ~ nodes[root].is_leaf
    /\ Len(ret) >= 3
    /\ \E i, j \in DOMAIN ret :
          i # j /\ ret[i].x = ret[j].x /\ ret[i].y = ret[j].y

\* --------------------------------------------------------------- C12
\* C12: knn_query(q, k) with k <= 0, zero or negative, returns an empty
\* result, whatever the tree holds.
C12_KnnNonPositiveKReturnsNothing ==
    (call.op = "knn_query" /\ call.k <= 0) => Len(ret) = 0

\* --------------------------------------------------------------- C13
Inverted(r) == r.min_x > r.max_x \/ r.min_y > r.max_y
PointSized(r) == r.min_x = r.max_x /\ r.min_y = r.max_y

\* The rectangles of the entries of the reachable nodes, leaf and internal.
ReachableEntryRects ==
    {rects[nodes[pl[1]].entries[pl[2]].rect] :
        pl \in ReachablePlaces \cup InternalPlaces}

\* C13 as stated: an inverted rectangle intersects nothing, so in a range
\* query with an inverted query rectangle no entry of any node, point-sized
\* or not, passes the intersects filter.
C13_InvertedQueryIntersectsNoEntry ==
    (call.op = "range_query" /\ Inverted(call.query_rect)) =>
        \A e \in ReachableEntryRects : ~ intersects(e, call.query_rect)

\* C13 amended: an inverted rectangle intersects no point-sized rectangle,
\* so in a range query with an inverted query rectangle no leaf entry passes
\* the intersects filter; an entry of an internal node, whose rectangle is
\* not point-sized, can pass it.
C13_InvertedQueryIntersectsNoPointEntry ==
    (call.op = "range_query" /\ Inverted(call.query_rect)) =>
        \A e \in ReachableEntryRects :
            PointSized(e) => ~ intersects(e, call.query_rect)

\* A range query with a rectangle inverted on one axis only, on a tree whose
\* root entry passes the filter while the leaf entries below it do not.
C13_Witness ==
    /\ call.op = "range_query" /\ Inverted(call.query_rect)
    /\ call.query_rect.min_x <= call.query_rect.max_x
    /\ ~ nodes[root].is_leaf
    /\ \E pl \in InternalPlaces :
          /\ intersects(rects[nodes[pl[1]].entries[pl[2]].rect], call.query_rect)
          /\ Len(nodes[ChildAt(pl)].entries) >= 1

\* --------------------------------------------------------------- C14
\* The children (points or nodes) of a list of entries, in order.
ChildrenOf(es) == [i \in DOMAIN es |-> es[i].child]

\* A step that is an insert call.
InsertStep == call'.op = "insert" /\ points' # points
\* _split_node is the only place that makes a node: a step split a node
\* if and only if the heap of nodes grew.
SplitStep == InsertStep /\ Len(nodes') > Len(nodes)

\* C14: when an insert overflows a leaf that is not the root, the leaf held
\* max_entries entries before the append and keeps its first
\* floor((max_entries+1)/2); the sibling holds the rest, the new point
\* included, and is the child of no entry; those points are reachable by no
\* path; size counts them, height, root and the root's entry count are as
\* before.  A point that is unreachable stays unreachable, and no query
\* returns a point that is not reachable.
C14_NonRootSplitDetachesSecondHalf ==
    /\ [][(SplitStep /\ ~ nodes[root].is_leaf) =>
            \E leaf \in Children(root) :
                LET mid == (max_entries + 1) \div 2
                    sibling == Len(nodes')
                    full == Append(ChildrenOf(nodes[leaf].entries), call'.point)
                IN /\ nodes[leaf].is_leaf
                   /\ Len(nodes[leaf].entries) = max_entries
                   /\ ChildrenOf(nodes'[leaf].entries) = SubSeq(full, 1, mid)
                   /\ ChildrenOf(nodes'[sibling].entries)
                         = SubSeq(full, mid + 1, max_entries + 1)
                   /\ \A n \in DOMAIN nodes' : ~ nodes'[n].is_leaf =>
                         \A i \in DOMAIN nodes'[n].entries :
                             nodes'[n].entries[i].child # sibling
                   /\ \A i \in DOMAIN nodes'[sibling].entries :
                         nodes'[sibling].entries[i].child \notin ReachablePoints'
                   /\ call'.point \notin ReachablePoints'
                   /\ size' = size + 1
                   /\ height' = height
                   /\ root' = root
                   /\ Len(nodes'[root].entries) = Len(nodes[root].entries)]_vars
    /\ [][\A p \in Inserted \ ReachablePoints : p \notin ReachablePoints']_vars
    /\ [](call.op = "range_query" => Range(ret) \subseteq ReachablePoints)
    /\ [](call.op = "knn_query" => Returned \subseteq ReachablePoints)

\* A leaf of capacity 2 or more, below the root, has just overflowed: the
\* point of the last insert is counted and is not reachable.
C14_Witness ==
    /\ call.op = "insert" /\ max_entries >= 2
    /\ ~ nodes[root].is_leaf
    /\ call.point \notin ReachablePoints
    /\ size = Len(points)

\* --------------------------------------------------------------- C15
\* C15: an insert leaves every internal node internal with the same children
\* in the same order (so with the same number of entries, never split); a
\* node that is internal after the insert and did not exist before it is the
\* new root of a root split, made when the old root was a leaf, with two
\* entries; no leaf becomes internal; in an internal node the rectangle of at
\* most one entry changes, and it changes by growing.
C15_InsertKeepsInternalNodes ==
    [][InsertStep =>
        /\ \A n \in DOMAIN nodes :
              /\ nodes'[n].is_leaf = nodes[n].is_leaf
              /\ ~ nodes[n].is_leaf =>
                    /\ ChildrenOf(nodes'[n].entries) = ChildrenOf(nodes[n].entries)
                    /\ \A i \in DOMAIN nodes[n].entries :
                          LET before == rects[nodes[n].entries[i].rect]
                              after == rects'[nodes'[n].entries[i].rect]
                          IN /\ after.min_x <= before.min_x
                             /\ after.min_y <= before.min_y
                             /\ after.max_x >= before.max_x
                             /\ after.max_y >= before.max_y
                    /\ Cardinality({i \in DOMAIN nodes[n].entries :
                          rects'[nodes'[n].entries[i].rect]
                              # rects[nodes[n].entries[i].rect]}) <= 1
        /\ \A n \in DOMAIN nodes' \ DOMAIN nodes :
              ~ nodes'[n].is_leaf =>
                    /\ nodes[root].is_leaf
                    /\ root' = n
                    /\ Len(nodes'[n].entries) = 2]_vars

\* An insert has split a leaf below the root: the heap holds the two leaves,
\* the root and a later sibling, and the root still has its two entries.
C15_Witness ==
    /\ call.op = "insert"
    /\ ~ nodes[root].is_leaf
    /\ Len(nodes) >= 4
    /\ Len(nodes[root].entries) = 2

\* --------------------------------------------------------------- C16
\* The points of the leaves below node n.
PointsBelow(n) ==
    UNION {Range(ChildrenOf(nodes[l].entries)) :
              l \in {m \in ReachFrom({n}) : nodes[m].is_leaf}}

\* C16: for every entry (rect, child) of every reachable internal node,
\* rect contains every point stored in the leaves reachable through child.
C16_EntryRectContainsPointsBelow ==
    \A n \in Reachable : ~ nodes[n].is_leaf =>
        \A i \in DOMAIN nodes[n].entries :
            \A p \in PointsBelow(nodes[n].entries[i].child) :
                contains_point(rects[nodes[n].entries[i].rect], p)

\* A split below the root has shrunk a child: the entry's rectangle is
\* strictly larger than the child's own mbr.
C16_Witness ==
    /\ call.op = "insert"
    /\ SomePointLost
    /\ \E i \in DOMAIN nodes[root].entries :
          LET e == nodes[root].entries[i]
          IN /\ nodes[e.child].mbr # None
             /\ rects[e.rect] # rects[nodes[e.child].mbr]
             /\ area(rects[e.rect]) > area(rects[nodes[e.child].mbr])

\* --------------------------------------------------------------- C17
\* C17: when the root is internal, insert(p) appends p to the child of the
\* root entry whose rectangle needs the least enlargement to cover p, the
\* first such entry in list order; that entry's rectangle becomes the
\* smallest box covering its previous box and p, and the rectangles of the
\* other entries do not change.  (The child's entries, p appended, are what
\* the child holds afterwards, followed by what a split moved to its sibling.)
C17_InsertDescendsIntoFirstLeastEnlargement ==
    [][(InsertStep /\ ~ nodes[root].is_leaf) =>
        LET p == call'.point
            es == nodes[root].entries
            need(i) == enlargement_needed(rects[es[i].rect], p)
            chosen == CHOOSE i \in DOMAIN es :
                         /\ \A j \in DOMAIN es : need(i) <= need(j)
                         /\ \A j \in 1..(i - 1) : need(j) > need(i)
            child == es[chosen].child
            moved == IF SplitStep
                     THEN ChildrenOf(nodes'[Len(nodes')].entries) ELSE <<>>
            before == rects[es[chosen].rect]
        IN /\ Append(ChildrenOf(nodes[child].entries), p)
                 = ChildrenOf(nodes'[child].entries) \o moved
           /\ \A i \in DOMAIN es : i # chosen =>
                 /\ ChildrenOf(nodes'[es[i].child].entries)
                       = ChildrenOf(nodes[es[i].child].entries)
                 /\ rects'[nodes'[root].entries[i].rect] = rects[es[i].rect]
           /\ rects'[nodes'[root].entries[chosen].rect]
                 = [min_x |-> Min2(before.min_x, p.x),
                    min_y |-> Min2(before.min_y, p.y),
                    max_x |-> Max2(before.max_x, p.x),
                    max_y |-> Max2(before.max_y, p.y)]]_vars

\* The last insert went below an internal root whose two entries needed the
\* same enlargement for the point, and it went into the first: the point is
\* in the first child (or was lost in that child's split), not in the second.
C17_Witness ==
    /\ call.op = "insert"
    /\ ~ nodes[root].is_leaf
    /\ Len(points) >= max_entries + 2
    /\ LET es == nodes[root].entries
           p == call.point
       IN /\ Len(es) = 2
          /\ contains_point(rects[es[1].rect], p)
          /\ contains_point(rects[es[2].rect], p)
          /\ p \notin Range(ChildrenOf(nodes[es[2].child].entries))

\* --------------------------------------------------------------- C18
\* C18: a split of a node that holds n entries (its entries before the
\* insert and the appended one) leaves the node with its first floor(n/2)
\* entries and gives the new node the entries from there on, both in their
\* order, every entry once; the new node has the node's is_leaf flag and
\* max_entries; when the node was the root, the new root's two entries are
\* the node and the new node, in this order, each with the node's mbr.
C18_SplitHalvesInOrder ==
    [][SplitStep =>
        \E node \in DOMAIN nodes :
            LET new_node == Len(nodes) + 1
                n == Len(nodes[node].entries) + 1
                mid == n \div 2
                all == nodes'[node].entries \o nodes'[new_node].entries
            IN /\ Len(nodes'[node].entries) = mid
               /\ Len(all) = n
               /\ SubSeq(all, 1, n - 1) = nodes[node].entries
               /\ all[n].child = call'.point
               /\ nodes'[new_node].is_leaf = nodes[node].is_leaf
               /\ nodes'[new_node].max_entries = nodes[node].max_entries
               /\ nodes'[node].is_leaf = nodes[node].is_leaf
               /\ nodes'[node].max_entries = nodes[node].max_entries
               /\ (node = root) =>
                     /\ root' = Len(nodes) + 2
                     /\ Len(nodes') = Len(nodes) + 2
                     /\ nodes'[root'].entries =
                           << [rect |-> nodes'[node].mbr, child |-> node],
                              [rect |-> nodes'[new_node].mbr, child |-> new_node] >>
               /\ (node # root) => root' = root /\ Len(nodes') = Len(nodes) + 1]_vars

\* A root leaf of three entries has been split: it keeps the first one, the
\* new node holds the other two, and the new root lists them in this order.
C18_Witness ==
    /\ call.op = "insert"
    /\ Len(points) = 3
    /\ ~ nodes[root].is_leaf
    /\ ChildrenOf(nodes[root].entries) = << 1, 2 >>
    /\ ChildrenOf(nodes[1].entries) = << points[1] >>
    /\ ChildrenOf(nodes[2].entries) = << points[2], points[3] >>

\* --------------------------------------------------------------- C19
\* C19 as stated: in a tree of max_entries = 1 every insert splits a node,
\* the first insert included.
C19_EveryInsertSplits ==
    [][(max_entries = 1 /\ InsertStep) => SplitStep]_vars

\* C19: in a tree of max_entries = 1 the first insert fills the empty root
\* leaf and splits nothing; every later insert splits the leaf it inserted
\* into, whose second half, the new node, holds the point just inserted.
C19_EveryInsertButTheFirstSplits ==
    [][(max_entries = 1 /\ InsertStep) =>
        /\ SplitStep <=> Len(points) >= 1
        /\ SplitStep =>
              ChildrenOf(nodes'[Len(nodes) + 1].entries) = << call'.point >>]_vars

\* Three inserts into a tree of max_entries = 1: the first made no node, the
\* second split the root (two nodes more), the third a leaf (one more).
C19_Witness ==
    /\ max_entries = 1
    /\ call.op = "insert"
    /\ Len(points) = 3
    /\ Len(nodes) = 4

\* ============================================================ the window
\* Program constants.
DefaultMaxEntries == 4      \* measure_insertion_time(points, max_entries=4)
CountLimit == 10000         \* generate_*_data: "count > 10000" is refused

\* The largest data set a generate button builds here.
MaxBuild == 1

\* The text of an Entry widget (count_var, k_var) is a sequence of
\* characters.  The user may retype it before any event, so a handler finds
\* any of Texts there: nothing, a word, a decimal, a negative number, zero,
\* small counts (one padded with a blank), the two defaults "5" and "100",
\* and the limit and the number after it.
Texts ==
    { << >>, <<"a">>, <<"1", ".", "5">>, <<"-", "1">>, <<"0">>, <<"1">>,
      <<" ", "2">>, <<"5">>, <<"1", "0", "0">>,
      <<"1", "0", "0", "0", "0">>, <<"1", "0", "0", "0", "1">> }

Digits == <<"0", "1", "2", "3", "4", "5", "6", "7", "8", "9">>
IsDigit(c) == \E i \in DOMAIN Digits : Digits[i] = c
DigitValue(c) == (CHOOSE i \in DOMAIN Digits : Digits[i] = c) - 1

RECURSIVE lstrip(_)
lstrip(s) == IF s # << >> /\ Head(s) = " " THEN lstrip(Tail(s)) ELSE s

RECURSIVE rstrip(_)
rstrip(s) ==
    IF s # << >> /\ s[Len(s)] = " " THEN rstrip(SubSeq(s, 1, Len(s) - 1)) ELSE s

RECURSIVE digits_value(_, _)
digits_value(s, acc) ==
    IF s = << >> THEN acc
    ELSE digits_value(Tail(s), 10 * acc + DigitValue(Head(s)))

\* int(text) of Python: blanks around the number are dropped, a sign may
\* lead, and what is left must be decimal digits, at least one; anything
\* else raises ValueError (ok is FALSE).
int(text) ==
    LET s == rstrip(lstrip(text))
        signed == s # << >> /\ Head(s) \in {"+", "-"}
        body == IF signed THEN Tail(s) ELSE s
    IN IF body = << >> \/ \E i \in DOMAIN body : ~ IsDigit(body[i])
       THEN [ok |-> FALSE, value |-> 0]
       ELSE [ok |-> TRUE,
             value |-> IF signed /\ Head(s) = "-"
                       THEN 0 - digits_value(body, 0)
                       ELSE digits_value(body, 0)]

\* RTree(max_entries=max_entries) as measure_insertion_time constructs it.
RTree ==
    [nodes |-> << RTreeNode(TRUE, max_entries) >>, rects |-> << >>,
     root |-> 1, size |-> 0, height |-> 1]

\* The loop of measure_insertion_time from the i-th point on.
RECURSIVE insert_all(_, _, _)
insert_all(S, pts, i) ==
    IF i > Len(pts) THEN S ELSE insert_all(insert(S, pts[i]), pts, i + 1)

measure_insertion_time(pts) == insert_all(RTree, pts, 1)

\* DataGenerator.generate_random_points / generate_clustered_points: count
\* points anywhere on the canvas, the i-th named i; range(count) is empty
\* for a count of zero or less.
generate_points(count) ==
    {[i \in 1..count |-> Point(xy[i][1], xy[i][2], i)] :
        xy \in [1..count -> XS \X YS]}

\* count_refused without the test "count <= 0".
count_refused_above_only(count) == count > CountLimit

\* "if count <= 0 or count > 10000" of generate_random_data and
\* generate_clustered_data.
count_refused(count) == count <= 0 \/ count > CountLimit

\* "if k <= 0" of perform_knn_query.
k_refused(k) == k <= 0

\* messagebox.showerror / showwarning: nothing of the window is assigned.
messagebox(kind, message) ==
    /\ call' = [op |-> kind, message |-> message]
    /\ UNCHANGED <<nodes, rects, root, size, height, max_entries, points, ret, gui>>

\* The body shared by generate_random_data and generate_clustered_data,
\* which differ in the generator they call.
generate_data(text, generator) ==
    LET count == int(text)
    IN IF ~ count.ok
       THEN messagebox("showerror", "Ingrese un numero valido")
       ELSE IF count_refused(count.value)
       THEN messagebox("showerror", "La cantidad debe estar entre 1 y 10000")
       ELSE /\ count.value <= MaxBuild
            /\ \E pts \in generate_points(count.value) :
                 LET S == measure_insertion_time(pts)
                 IN /\ points' = pts
                    /\ nodes' = S.nodes
                    /\ rects' = S.rects
                    /\ root' = S.root
                    /\ size' = S.size
                    /\ height' = S.height
            /\ gui' = [gui EXCEPT !.rtree = 1]
            /\ call' = [op |-> generator, count |-> count.value]
            /\ ret' = << >>
            /\ UNCHANGED max_entries

generate_random_data ==
    \E text \in Texts : generate_data(text, "generate_random_points")

generate_clustered_data ==
    \E text \in Texts : generate_data(text, "generate_clustered_points")

\* clear_data: the index is dropped (no tree: no node, no root).
clear_data ==
    /\ gui' = [gui EXCEPT !.rtree = None, !.query_results = << >>]
    /\ points' = << >>
    /\ nodes' = << >>
    /\ rects' = << >>
    /\ root' = None
    /\ size' = 0
    /\ height' = 0
    /\ call' = [op |-> "canvas.delete"]
    /\ ret' = << >>
    /\ UNCHANGED max_entries

\* perform_knn_query(x, y)
perform_knn_query(x, y, text) ==
    LET k == int(text)
    IN IF ~ k.ok
       THEN messagebox("showerror", "Ingrese un valor valido para K")
       ELSE IF k_refused(k.value)
       THEN messagebox("showerror", "K debe ser mayor que 0")
       ELSE IF gui.rtree = None
       THEN messagebox("AttributeError", "knn_query")
       ELSE LET query_point == Point(x, y, "Query Point")
                results == knn_query(Store, query_point, k.value)
            IN /\ call' = [op |-> "knn_query", query_point |-> query_point,
                           k |-> k.value]
               /\ ret' = results
               /\ gui' = [gui EXCEPT
                            !.query_results =
                                [i \in DOMAIN results |-> results[i][1]]]
               /\ UNCHANGED <<nodes, rects, root, size, height, max_entries, points>>

\* perform_range_query(x1, y1, x2, y2), called by on_canvas_release after
\* it has set drawing_rect to False.  With no index loaded
\* measure_range_query_time raises AttributeError at rtree.range_query and
\* the assignments after it are not reached.
perform_range_query(x1, y1, x2, y2) ==
    LET query_rect == Rectangle(Min2(x1, x2), Min2(y1, y2),
                                Max2(x1, x2), Max2(y1, y2))
    IN IF gui.rtree = None
       THEN /\ call' = [op |-> "AttributeError", message |-> "range_query"]
            /\ gui' = [gui EXCEPT !.drawing_rect = FALSE]
            /\ UNCHANGED <<nodes, rects, root, size, height, max_entries, points, ret>>
       ELSE LET results == range_query(Store, query_rect)
            IN /\ call' = [op |-> "range_query", query_rect |-> query_rect]
               /\ ret' = results
               /\ gui' = [gui EXCEPT !.drawing_rect = FALSE,
                                     !.query_results = results]
               /\ UNCHANGED <<nodes, rects, root, size, height, max_entries, points>>

\* on_canvas_click(event); the id canvas.create_rectangle returns is a
\* positive integer, of which only "is not zero" is ever read.
on_canvas_click ==
    \E x \in XS, y \in YS :
        IF gui.rtree = None
        THEN messagebox("showwarning", "Primero genere datos")
        ELSE IF gui.query_type_var = "range"
        THEN /\ gui' = [gui EXCEPT !.drawing_rect = TRUE,
                                   !.rect_start = << x, y >>,
                                   !.current_rect_id = 1]
             /\ call' = [op |-> "canvas.create_rectangle"]
             /\ UNCHANGED <<nodes, rects, root, size, height, max_entries, points, ret>>
        ELSE \E text \in Texts : perform_knn_query(x, y, text)

\* on_canvas_drag(event): the dashed rectangle follows the mouse.
on_canvas_drag ==
    /\ gui.drawing_rect /\ gui.current_rect_id # None
    /\ call' = [op |-> "canvas.coords"]
    /\ UNCHANGED <<nodes, rects, root, size, height, max_entries, points, ret, gui>>

\* on_canvas_release(event)
on_canvas_release ==
    /\ gui.drawing_rect
    /\ \E x \in XS, y \in YS :
         perform_range_query(gui.rect_start[1], gui.rect_start[2], x, y)

\* clear_query
clear_query ==
    /\ gui' = [gui EXCEPT !.query_results = << >>]
    /\ call' = [op |-> "clear_query"]
    /\ UNCHANGED <<nodes, rects, root, size, height, max_entries, points, ret>>

\* The two Radiobuttons bound to query_type_var.
Radiobutton ==
    /\ \E value \in {"range", "knn"} :
         /\ value # gui.query_type_var
         /\ gui' = [gui EXCEPT !.query_type_var = value]
    /\ UNCHANGED <<nodes, rects, root, size, height, max_entries, points, call, ret>>

\* The window after GeoSpatialGUI.__init__: no index, no points; every
\* index it will build has the default capacity.
InitGUI ==
    /\ max_entries = DefaultMaxEntries
    /\ nodes = << >>
    /\ rects = << >>
    /\ root = None
    /\ size = 0
    /\ height = 0
    /\ points = << >>
    /\ call = [op |-> "GeoSpatialGUI"]
    /\ ret = << >>
    /\ gui = GeoSpatialGUI

NextGUI ==
    \/ generate_random_data
    \/ generate_clustered_data
    \/ clear_data
    \/ on_canvas_click
    \/ on_canvas_drag
    \/ on_canvas_release
    \/ clear_query
    \/ Radiobutton

SpecGUI == InitGUI /\ [][NextGUI]_vars

\* --------------------------------------------------------------- C20
\* C20: whatever the events, the window calls knn_query only with an integer
\* k > 0, calls range_query only with a rectangle that has min <= max on
\* both axes, and builds an index only from a count in 1..10000, of that
\* many points; a handler that ends in showerror has changed neither rtree
\* (nor the tree behind it) nor points nor query_results.
C20_WindowValidatesBeforeCallingTheIndex ==
    /\ [](call.op = "knn_query" => call.k \in Nat /\ call.k > 0)
    /\ [](call.op = "range_query" => ~ Inverted(call.query_rect))
    /\ [](call.op \in {"generate_random_points", "generate_clustered_points"} =>
            /\ call.count \in 1..CountLimit
            /\ Len(points) = call.count
            /\ size = call.count
            /\ gui.rtree # None)
    /\ [][call'.op = "showerror" =>
            /\ gui'.rtree = gui.rtree
            /\ gui'.query_results = gui.query_results
            /\ UNCHANGED <<points, nodes, rects, root, size, height>>]_vars

\* An input was refused while an index was loaded and a query had results:
\* both are still there.
C20_Witness ==
    /\ call.op = "showerror"
    /\ gui.rtree # None
    /\ points # << >>
    /\ gui.query_results # << >>

\* --------------------------------------------------------------- C21
\* C21: height never exceeds 2; an internal root has exactly two entries,
\* both of them leaves, under height 2; and once the root is internal an
\* insert neither replaces it nor changes its children.
C21_HeightAtMostTwoRootKeepsTwoLeaves ==
    /\ [](height <= 2)
    /\ [](~ nodes[root].is_leaf =>
            /\ height = 2
            /\ Len(nodes[root].entries) = 2
            /\ \A c \in Children(root) : nodes[c].is_leaf)
    /\ [][~ nodes[root].is_leaf =>
            /\ root' = root
            /\ ~ nodes'[root].is_leaf
            /\ ChildrenOf(nodes'[root].entries) = ChildrenOf(nodes[root].entries)]_vars

\* Leaves below an internal root have been split twice (two nodes beyond the
\* root and its two leaves) and the height is still 2.
C21_Witness ==
    /\ call.op = "insert"
    /\ ~ nodes[root].is_leaf
    /\ height = 2
    /\ Len(nodes) >= 5

\* --------------------------------------------------------------- C22
\* C22: at most 2 * max_entries points are reachable from the root, and no
\* query returns more than that many; every insert adds 1 to size; and the
\* reachable points are as many as size exactly as long as no leaf below the
\* root has been split (the heap holds no node beyond the first leaf and
\* the two nodes of the root split).
C22_ReachableAtMostTwiceMaxEntries ==
    /\ [](Cardinality(ReachablePoints) <= 2 * max_entries)
    /\ [](call.op \in {"range_query", "knn_query"} => Len(ret) <= 2 * max_entries)
    /\ [][InsertStep => size' = size + 1]_vars
    /\ []((Cardinality(ReachablePoints) = size) <=> (Len(nodes) <= 3))

\* More points were inserted than two leaves hold, and a query for more
\* neighbours than that came back with 2 * max_entries of them.
C22_Witness ==
    /\ call.op = "knn_query"
    /\ size > 2 * max_entries
    /\ call.k > 2 * max_entries
    /\ Len(ret) = 2 * max_entries
    /\ Len(nodes) > 3

C24_InvertedRangeQueryReturnsNothing ==
    (call.op = "range_query" /\ Inverted(call.query_rect)) =>
        /\ ret = << >>
        /\ \A p \in Inserted : ~ contains_point(call.query_rect, p)

\* An inverted query on a tree with an internal root, one of whose entry
\* rectangles passes the intersects filter.
C24_Witness ==
    /\ call.op = "range_query"
    /\ Inverted(call.query_rect)
    /\ ~ nodes[root].is_leaf
    /\ \E i \in DOMAIN nodes[root].entries :
          intersects(rects[nodes[root].entries[i].rect], call.query_rect)
    /\ ret = << >>

\* --------------------------------------------------------------- C25
\* The orders in which the inserted points can be inserted.
InsertionOrders ==
    {[i \in DOMAIN points |-> points[f[i]]] :
        f \in {g \in [DOMAIN points -> DOMAIN points] :
                  \A i, j \in DOMAIN points : g[i] = g[j] => i = j}}

\* The distances of a knn_query result, in the order returned (ascending).
Distances(result) == [i \in DOMAIN result |-> result[i][2]]

\* C25: the tree built from the inserted points in any other order, with
\* the same max_entries, answers every range_query with the same set of
\* points and every knn_query with the same distances.
C25_QueriesDoNotDependOnInsertionOrder ==
    \A order \in InsertionOrders :
        LET T == insert_all(RTree, order, 1)
        IN /\ \A a \in XS, b \in YS, c \in XS, d \in YS :
                 Range(range_query(T, Rectangle(a, b, c, d)))
                     = Range(range_query(Store, Rectangle(a, b, c, d)))
           /\ \A x \in XS, y \in YS, k \in KS :
                 Distances(knn_query(T, Point(x, y, "Query Point"), k))
                     = Distances(knn_query(Store, Point(x, y, "Query Point"), k))

\* --------------------------------------------------------------- C26
\* C26: perform_range_query and perform_knn_query never run without an
\* index (no call of theirs ends in the AttributeError of a query on None,
\* and after a query of theirs an index is loaded), and drawing_rect is
\* false after every release.
C26_WindowQueriesOnlyWithAnIndex ==
    /\ call.op # "AttributeError"
    /\ call.op \in {"range_query", "knn_query"} => gui.rtree # None
    /\ call.op \in {"range_query", "AttributeError"} => ~ gui.drawing_rect

====
